---- MODULE Spec2Model ----
(***************************************************************************)
(* The asynchronous query path of the AWS Athena MCP server: executeQuery  *)
(* (resolve result location, start the query, poll its status at a fixed   *)
(* interval, fetch and decode the results), getQueryResultLocation and     *)
(* cancelQuery, against a remote engine whose executions change state on   *)
(* their own.  Each `await` of the source is one action: the collaborator  *)
(* call is issued and answered in that step, and the synchronous code up   *)
(* to the next `await` (or the return) runs in the same step.              *)
(***************************************************************************)
EXTENDS Integers, Sequences, FiniteSets, TLC

VARIABLES
    athena,            \* TRUE iff the module-level Athena client was created
    QUERY_TIMEOUT,     \* config.aws.athena.query_timeout_ms
    engine,            \* remote engine: execution id -> state ("NONE": no such execution)
    active,            \* the executeQuery invocations the host serves in this run
    pc,                \* per invocation: the await it is suspended at
    request,           \* per invocation: the arguments (sql, database?)
    resultLocation,    \* per invocation: local `resultLocation`
    startParams,       \* per invocation: the StartQueryExecutionInput it sent
    queryExecutionId,  \* per invocation: local `queryExecutionId`
    waitTime,          \* per invocation: local `waitTime`
    statusResult,      \* per invocation: local `statusResult` of the current iteration
    results,           \* per invocation: local `results` (the raw result set fetched)
    response,          \* per invocation: what the call handed to its caller
    log,               \* per invocation: the collaborator calls and sleeps it made
    cancelPc,          \* cancelQuery: the await it is suspended at
    cancelId,          \* cancelQuery: argument queryId
    cancelResponse,    \* cancelQuery: what the call handed to its caller
    cancelLog          \* cancelQuery: the collaborator calls it made

vars == <<athena, QUERY_TIMEOUT, engine, active, pc, request, resultLocation,
          startParams, queryExecutionId, waitTime, statusResult, results, response,
          log, cancelPc, cancelId, cancelResponse, cancelLog>>

callVars == <<pc, request, resultLocation, startParams, queryExecutionId,
              waitTime, statusResult, results, response, log>>

cancelVars == <<cancelPc, cancelId, cancelResponse, cancelLog>>

configVars == <<athena, QUERY_TIMEOUT, active>>

-----------------------------------------------------------------------------
(* Bounds of the model *)

\* QUERY_TIMEOUT ranges over 0, pollInterval/2, ..., MaxTimeoutHalves * pollInterval/2
MaxTimeoutHalves == 7
\* raw result sets: at most this many rows, cells per row and metadata columns
MaxRows == 2
MaxCells == 2
MaxColumnInfo == 2

-----------------------------------------------------------------------------
(* Values *)

\* An optional value (a field that may be undefined): <<>> or <<v>>
Absent == <<>>
Some(v) == <<v>>

\* `x || d` on an optional string: undefined and '' are falsy
OrStr(x, d) == IF x = Absent THEN d ELSE IF x[1] = "" THEN d ELSE x[1]

\* `x || d` on an optional number: undefined and 0 are falsy
OrNum(x, d) == IF x = Absent THEN d ELSE IF x[1] = 0 THEN d ELSE x[1]

\* The outcome of an awaited call: a value, or a rejection with error.message
Ret(v) == [ok |-> TRUE, val |-> v]
Raise(m) == [ok |-> FALSE, val |-> m]

Calls == {1, 2}
ExecIds == {"exec-1", "exec-2"}
NonTerminal == {"QUEUED", "RUNNING"}
Terminal == {"SUCCEEDED", "FAILED", "CANCELLED"}
States == NonTerminal \cup Terminal

region == "us-east-1"
ATHENA_DATABASE == "default"
ATHENA_WORKGROUP == "primary"
pollInterval == 2000

Timeouts == {k * (pollInterval \div 2) : k \in 0..MaxTimeoutHalves}
Accounts == {"123456789012"}
ErrorMessages == {"Rate exceeded"}
Requests == {[sql |-> "SELECT 1", database |-> Absent],
             [sql |-> "SELECT id, name FROM t", database |-> Some("sales")],
             [sql |-> "SELECT 1", database |-> Some("")]}
Reasons == {Absent, Some("syntax error"), Some("")}
EngineTimes == {Absent, Some(0), Some(1500)}
ScannedBytes == {Absent, Some(1024)}

\* String.prototype.toLowerCase on the states it is applied to
toLowerCase(s) ==
    CASE s = "FAILED" -> "failed"
      [] s = "CANCELLED" -> "cancelled"
      [] s = "SUCCEEDED" -> "succeeded"
      [] s = "QUEUED" -> "queued"
      [] s = "RUNNING" -> "running"
      [] OTHER -> s

-----------------------------------------------------------------------------
(* ResultDecoder: the result processing of executeQuery *)

\* a cell {VarCharValue?}, a row {Data?}, a result {ResultSet?: {ColumnInfo?, Rows?}}
CellValues == {Absent, Some("id")}
ColumnNames == {Absent, Some("id")}

SeqsUpTo(S, n) == UNION {[1..k -> S] : k \in 0..n}

RawRows == {Absent} \cup {Some(d) : d \in SeqsUpTo(CellValues, MaxCells)}

RawResultSets ==
    {Absent} \cup
    {Some([ColumnInfo |-> ci, Rows |-> rs]) :
        ci \in {Absent} \cup {Some(c) : c \in SeqsUpTo(ColumnNames, MaxColumnInfo)},
        rs \in {Absent} \cup {Some(r) : r \in SeqsUpTo(RawRows, MaxRows)}}

\* the result sets the engine returns in the runs of the whole call
SampleResultSets ==
    {Absent,
     Some([ColumnInfo |-> Some(<<Some("id"), Some("name")>>),
           Rows |-> Some(<<Some(<<Some("id"), Some("name")>>),
                           Some(<<Some("1"), Some("ann")>>)>>)]),
     Some([ColumnInfo |-> Absent,
           Rows |-> Some(<<Some(<<Some("id"), Some("name")>>),
                           Some(<<Some("1"), Some("ann")>>),
                           Some(<<Some("2")>>)>>)])}

\* `col_${cellIndex}` (cellIndex is 0-based)
ColKey(cellIndex) == "col_" \o ToString(cellIndex)

\* columns[cellIndex] || `col_${cellIndex}`
ColName(columns, cellIndex) ==
    IF cellIndex + 1 <= Len(columns)
    THEN (IF columns[cellIndex + 1] = "" THEN ColKey(cellIndex) ELSE columns[cellIndex + 1])
    ELSE ColKey(cellIndex)

\* rowData after row.Data?.forEach((cell, cellIndex) => rowData[colName] = ...)
\* for the cells 0..n-1: a later assignment to the same key overwrites
RECURSIVE RowData(_, _, _)
RowData(columns, data, n) ==
    IF n = 0 THEN <<>>
    ELSE LET prev == RowData(columns, data, n - 1)
             key == ColName(columns, n - 1)
             val == OrStr(data[n], "")
         IN [k \in (DOMAIN prev) \cup {key} |-> IF k = key THEN val ELSE prev[k]]

\* every column index without a cell is filled in as col_<i> = ''
DecodeRow_Padded(columns, row) ==
    LET data == IF row = Absent THEN <<>> ELSE row[1]
        base == RowData(columns, data, Len(data))
        missing == {ColKey(i - 1) : i \in (Len(data) + 1)..Len(columns)}
    IN [k \in (DOMAIN base) \cup missing |-> IF k \in DOMAIN base THEN base[k] ELSE ""]

DecodeRow(columns, row) ==
    IF row = Absent THEN <<>> ELSE RowData(columns, row[1], Len(row[1]))

\* columns.push(cell.VarCharValue || '') for every cell of the row
HeaderOf(row) ==
    IF row = Absent THEN <<>>
    ELSE [i \in 1..Len(row[1]) |-> OrStr(row[1][i], "")]

\* the names collected back to front
MetadataColumns_Reversed(rs) ==
    IF rs.ColumnInfo = Absent THEN <<>>
    ELSE LET n == Len(rs.ColumnInfo[1])
         IN [i \in 1..n |-> OrStr(rs.ColumnInfo[1][n + 1 - i], "")]

\* ColumnInfo.map(col => col.Name || '')
MetadataColumns(rs) ==
    IF rs.ColumnInfo = Absent THEN <<>>
    ELSE [i \in 1..Len(rs.ColumnInfo[1]) |-> OrStr(rs.ColumnInfo[1][i], "")]

\* the header row is taken for the column names and also decoded as data
RECURSIVE ForEachRow_HeaderKept(_, _, _, _)
ForEachRow_HeaderKept(raw, index, columns, rows) ==
    IF index >= Len(raw) THEN [columns |-> columns, rows |-> rows]
    ELSE LET cols == IF index = 0 /\ Len(columns) = 0
                     THEN columns \o HeaderOf(raw[index + 1])
                     ELSE columns
         IN ForEachRow_HeaderKept(raw, index + 1, cols,
                                  Append(rows, DecodeRow(cols, raw[index + 1])))

\* the first raw row is always taken for a header: with column names already
\* known it is skipped
RECURSIVE ForEachRow_FirstSkipped(_, _, _, _)
ForEachRow_FirstSkipped(raw, index, columns, rows) ==
    IF index >= Len(raw) THEN [columns |-> columns, rows |-> rows]
    ELSE IF index = 0
         THEN ForEachRow_FirstSkipped(raw, index + 1,
                 IF Len(columns) = 0 THEN HeaderOf(raw[index + 1]) ELSE columns, rows)
         ELSE ForEachRow_FirstSkipped(raw, index + 1, columns,
                         Append(rows, DecodeRow(columns, raw[index + 1])))

\* Rows.forEach((row, index) => ...) from (0-based) index on, with the
\* columns and rows accumulated so far
RECURSIVE ForEachRow(_, _, _, _)
ForEachRow(raw, index, columns, rows) ==
    IF index >= Len(raw) THEN [columns |-> columns, rows |-> rows]
    ELSE IF index = 0 /\ Len(columns) = 0
         THEN ForEachRow(raw, index + 1, columns \o HeaderOf(raw[index + 1]), rows)
         ELSE ForEachRow(raw, index + 1, columns,
                         Append(rows, DecodeRow(columns, raw[index + 1])))

\* columns is a module-level list that is never reset: a decode starts from
\* the columns an earlier decode left behind
Decode_SharedColumns(res) ==
    LET earlier == {c \in Calls : pc[c] = "done" /\ response[c][1].success}
        carried == IF earlier = {} THEN <<>>
                   ELSE response[CHOOSE c \in earlier : TRUE][1].data.columns
    IN IF res = Absent THEN [columns |-> carried, rows |-> <<>>]
       ELSE LET rs == res[1]
                columns == carried \o MetadataColumns(rs)
            IN IF rs.Rows = Absent THEN [columns |-> columns, rows |-> <<>>]
               ELSE ForEachRow(rs.Rows[1], 0, columns, <<>>)

\* the columns and rows built from `results` (res: its ResultSet, if any)
Decode(res) ==
    IF res = Absent THEN [columns |-> <<>>, rows |-> <<>>]
    ELSE LET rs == res[1]
             columns == MetadataColumns(rs)
         IN IF rs.Rows = Absent THEN [columns |-> columns, rows |-> <<>>]
            ELSE ForEachRow(rs.Rows[1], 0, columns, <<>>)

-----------------------------------------------------------------------------
(* getQueryResultLocation *)

AccountLocation(accountId) ==
    "s3://aws-athena-query-results-" \o region \o "-" \o accountId \o "/"

DefaultLocation == "s3://aws-athena-query-results-" \o region \o "-default/"

\* no try/catch around the identity lookup
getQueryResultLocation_NoCatch(identity) ==
    IF identity.ok THEN Ret(AccountLocation(identity.val)) ELSE Raise(identity.val)

\* identity: the outcome of sts.getCallerIdentity().promise()
getQueryResultLocation(identity) ==
    IF identity.ok THEN Ret(AccountLocation(identity.val)) ELSE Ret(DefaultLocation)

-----------------------------------------------------------------------------
(* executeQuery: envelopes *)

NotInitialized ==
    [success |-> FALSE, error |-> "AWS Athena not initialized. Check credentials."]

\* the exception propagates to the caller of executeQuery
ExecuteQueryCatch_Rethrow(message) == [thrown |-> message]

\* the error text passed on as it is
ExecuteQueryCatch_Verbatim(message) == [success |-> FALSE, error |-> message]

\* catch (error) of executeQuery
ExecuteQueryCatch(message) ==
    [success |-> FALSE, error |-> "Execution error: " \o message]

TimeoutEnvelope(maxWaitTime) ==
    [success |-> FALSE, error |-> "Query timeout after " \o ToString(maxWaitTime) \o "ms"]

\* the reason interpolated without the `|| 'Unknown error'` fallback
FailedEnvelope_NoFallback(st) ==
    [success |-> FALSE,
     error |-> "Query " \o toLowerCase(st.State) \o ": "
                  \o (IF st.StateChangeReason = Absent THEN "undefined"
                      ELSE st.StateChangeReason[1])]

FailedEnvelope(st) ==
    [success |-> FALSE,
     error |-> "Query " \o toLowerCase(st.State) \o ": "
                  \o OrStr(st.StateChangeReason, "Unknown error")]

\* execution_time_ms taken from the poller's accumulated wait
SuccessEnvelope_Elapsed(c, table) ==
    LET st == statusResult[c] IN
    [success |-> TRUE,
     data |-> [query_execution_id |-> queryExecutionId[c],
               status |-> "SUCCEEDED",
               columns |-> table.columns,
               rows |-> table.rows,
               row_count |-> Len(table.rows),
               data_scanned_bytes |-> OrNum(st.DataScannedInBytes, 0),
               execution_time_ms |-> waitTime[c]]]

SuccessEnvelope(c, table) ==
    LET st == statusResult[c] IN
    [success |-> TRUE,
     data |-> [query_execution_id |-> queryExecutionId[c],
               status |-> "SUCCEEDED",
               columns |-> table.columns,
               rows |-> table.rows,
               row_count |-> Len(table.rows),
               data_scanned_bytes |-> OrNum(st.DataScannedInBytes, 0),
               execution_time_ms |-> OrNum(st.EngineExecutionTimeInMillis, 0)]]

LoopCondition_Inclusive(w, maxWaitTime) == w <= maxWaitTime

\* the loop gives up when the next sleep would pass the limit
LoopCondition_Early(w, maxWaitTime) == w + pollInterval < maxWaitTime


\* while (waitTime < maxWaitTime)
LoopCondition(w, maxWaitTime) == w < maxWaitTime

NextWaitTime_HalfInterval(w) == w + pollInterval \div 2

\* exponential backoff: the wait doubles after the first interval
NextWaitTime_Backoff(w) == IF w = 0 THEN pollInterval ELSE 2 * w

\* waitTime += pollInterval
NextWaitTime(w) == w + pollInterval

Branch_CancelledKeepsPolling(status) ==
    IF status = "SUCCEEDED" THEN "results"
    ELSE IF status = "FAILED" THEN "failed"
    ELSE "sleep"

\* the results are fetched for a cancelled execution as well
Branch_CancelledFetches(status) ==
    IF status = "SUCCEEDED" \/ status = "CANCELLED" THEN "results"
    ELSE IF status = "FAILED" THEN "failed"
    ELSE "sleep"

\* every status that is neither SUCCEEDED nor QUEUED nor RUNNING is a failure
Branch_UnknownFails(status) ==
    IF status = "SUCCEEDED" THEN "results"
    ELSE IF status = "QUEUED" \/ status = "RUNNING" THEN "sleep"
    ELSE "failed"

\* the branch the loop body takes on `status`
Branch(status) ==
    IF status = "SUCCEEDED" THEN "results"
    ELSE IF status = "FAILED" \/ status = "CANCELLED" THEN "failed"
    ELSE "sleep"

NoStatus == [State |-> "ABSENT", StateChangeReason |-> Absent,
             EngineExecutionTimeInMillis |-> Absent, DataScannedInBytes |-> Absent]

NoParams == [QueryString |-> "", Database |-> "", WorkGroup |-> "", OutputLocation |-> ""]

\* the call returns `env` to its caller
Return(c, env) ==
    /\ pc' = [pc EXCEPT ![c] = "done"]
    /\ response' = [response EXCEPT ![c] = Append(@, env)]

\* no return after the loop: once the condition fails the caller's promise
\* is left pending
Loop_NoReturn(c, w) ==
    IF LoopCondition(w, QUERY_TIMEOUT)
    THEN pc' = [pc EXCEPT ![c] = "status"] /\ UNCHANGED response
    ELSE pc' = [pc EXCEPT ![c] = "pending"] /\ UNCHANGED response

\* top of the while loop with waitTime = w: next status read, or the timeout return
Loop(c, w) ==
    IF LoopCondition(w, QUERY_TIMEOUT)
    THEN pc' = [pc EXCEPT ![c] = "status"] /\ UNCHANGED response
    ELSE Return(c, TimeoutEnvelope(QUERY_TIMEOUT))

Logged(c, op, arg, res) == log' = [log EXCEPT ![c] = Append(@, <<op, arg, res>>)]

-----------------------------------------------------------------------------
(* executeQuery: one action per await *)

\* executeQuery(sql, database) is called: the `!athena` guard, then
\* getQueryResultLocation() is entered and suspends at sts.getCallerIdentity()
ExecuteQuery(c) ==
    /\ c \in active
    /\ pc[c] = "idle"
    /\ \E r \in Requests : request' = [request EXCEPT ![c] = r]
    /\ IF athena
       THEN pc' = [pc EXCEPT ![c] = "identity"] /\ UNCHANGED response
       ELSE Return(c, NotInitialized)
    /\ UNCHANGED <<resultLocation, startParams, queryExecutionId, waitTime,
                   statusResult, results, log, engine, cancelVars, configVars>>

\* `database ?? ATHENA_DATABASE`: an empty database name is passed on
TargetDatabase_EmptyKept(database) ==
    IF database = Absent THEN ATHENA_DATABASE ELSE database[1]

\* const targetDatabase = database || ATHENA_DATABASE
TargetDatabase(database) == OrStr(database, ATHENA_DATABASE)

\* the location is resolved once and kept: a call that finds a location
\* resolved by another call reuses it without an identity lookup
Identity_Cached(c) ==
    LET known == {d \in Calls : resultLocation[d] # ""} IN
    /\ pc[c] = "identity"
    /\ IF known # {}
       THEN LET loc == resultLocation[CHOOSE d \in known : TRUE] IN
            /\ resultLocation' = [resultLocation EXCEPT ![c] = loc]
            /\ startParams' = [startParams EXCEPT ![c] =
                   [QueryString |-> request[c].sql,
                    Database |-> TargetDatabase(request[c].database),
                    WorkGroup |-> ATHENA_WORKGROUP,
                    OutputLocation |-> loc]]
            /\ UNCHANGED log
       ELSE \E identity \in {Ret(a) : a \in Accounts} \cup {Raise(m) : m \in ErrorMessages} :
            LET loc == getQueryResultLocation(identity) IN
            /\ Logged(c, "identity", "", IF identity.ok THEN "ok" ELSE "raised")
            /\ resultLocation' = [resultLocation EXCEPT ![c] = loc.val]
            /\ startParams' = [startParams EXCEPT ![c] =
                   [QueryString |-> request[c].sql,
                    Database |-> TargetDatabase(request[c].database),
                    WorkGroup |-> ATHENA_WORKGROUP,
                    OutputLocation |-> loc.val]]
    /\ pc' = [pc EXCEPT ![c] = "start"]
    /\ UNCHANGED <<response, request, queryExecutionId, waitTime, statusResult, results,
                   engine, cancelVars, configVars>>

\* sts.getCallerIdentity() settles; getQueryResultLocation returns; startParams
\* is built and athena.startQueryExecution(startParams) is issued
Identity(c) ==
    /\ pc[c] = "identity"
    /\ \E identity \in {Ret(a) : a \in Accounts} \cup {Raise(m) : m \in ErrorMessages} :
         LET loc == getQueryResultLocation(identity) IN
         /\ Logged(c, "identity", "", IF identity.ok THEN "ok" ELSE "raised")
         /\ IF loc.ok
            THEN /\ resultLocation' = [resultLocation EXCEPT ![c] = loc.val]
                 /\ startParams' = [startParams EXCEPT ![c] =
                        [QueryString |-> request[c].sql,
                         Database |-> TargetDatabase(request[c].database),
                         WorkGroup |-> ATHENA_WORKGROUP,
                         OutputLocation |-> loc.val]]
                 /\ pc' = [pc EXCEPT ![c] = "start"]
                 /\ UNCHANGED response
            ELSE /\ Return(c, ExecuteQueryCatch(loc.val))
                 /\ UNCHANGED <<resultLocation, startParams>>
    /\ UNCHANGED <<request, queryExecutionId, waitTime, statusResult, results,
                   engine, cancelVars, configVars>>

\* the id the engine gives its next execution
NewId == IF engine["exec-1"] = "NONE" THEN "exec-1" ELSE "exec-2"

\* athena.startQueryExecution settles: on success the engine has a new QUEUED
\* execution, waitTime = 0 and the loop is entered
Start(c) ==
    /\ pc[c] = "start"
    /\ \/ /\ engine' = [engine EXCEPT ![NewId] = "QUEUED"]
          /\ queryExecutionId' = [queryExecutionId EXCEPT ![c] = NewId]
          /\ waitTime' = [waitTime EXCEPT ![c] = 0]
          /\ Logged(c, "start", NewId, "ok")
          /\ Loop(c, 0)
       \/ \E m \in ErrorMessages :
          /\ Logged(c, "start", "", "raised")
          /\ Return(c, ExecuteQueryCatch(m))
          /\ UNCHANGED <<engine, queryExecutionId, waitTime>>
    /\ UNCHANGED <<request, resultLocation, startParams, statusResult, results,
                   cancelVars, configVars>>

\* the id is a module-level variable: every invocation reads the id of the
\* latest submit
PolledId_Shared(c) == IF engine["exec-2"] # "NONE" THEN "exec-2" ELSE "exec-1"

\* { QueryExecutionId: queryExecutionId } of the invocation's own reads
PolledId(c) == queryExecutionId[c]

\* what a status read of execution id can answer: the engine's state (with a
\* reason on FAILED/CANCELLED and statistics on SUCCEEDED, the only fields the
\* caller reads on those branches), or an answer without a state
StatusAnswers(id) ==
    LET s == engine[id] IN
    {[State |-> s, StateChangeReason |-> r,
      EngineExecutionTimeInMillis |-> t, DataScannedInBytes |-> b] :
        r \in IF s \in {"FAILED", "CANCELLED"} THEN Reasons ELSE {Absent},
        t \in IF s = "SUCCEEDED" THEN EngineTimes ELSE {Absent},
        b \in IF s = "SUCCEEDED" THEN ScannedBytes ELSE {Absent}}
    \cup {NoStatus}

\* a raised status read is retried after the poll interval
Status_RetriesRaise(c) ==
    /\ pc[c] = "status"
    /\ \/ \E st \in StatusAnswers(PolledId(c)) :
          /\ statusResult' = [statusResult EXCEPT ![c] = st]
          /\ Logged(c, "status", PolledId(c), st.State)
          /\ CASE Branch(st.State) = "results" ->
                    pc' = [pc EXCEPT ![c] = "results"] /\ UNCHANGED response
               [] Branch(st.State) = "failed" -> Return(c, FailedEnvelope(st))
               [] OTHER -> pc' = [pc EXCEPT ![c] = "sleep"] /\ UNCHANGED response
       \/ /\ Logged(c, "status", PolledId(c), "RAISED")
          /\ pc' = [pc EXCEPT ![c] = "sleep"]
          /\ UNCHANGED <<statusResult, response>>
    /\ UNCHANGED <<request, resultLocation, startParams, queryExecutionId,
                   waitTime, results, engine, cancelVars, configVars>>

\* athena.getQueryExecution settles, and the loop body branches on the status
Status(c) ==
    /\ pc[c] = "status"
    /\ \/ \E st \in StatusAnswers(PolledId(c)) :
          /\ statusResult' = [statusResult EXCEPT ![c] = st]
          /\ Logged(c, "status", PolledId(c), st.State)
          /\ CASE Branch(st.State) = "results" ->
                    pc' = [pc EXCEPT ![c] = "results"] /\ UNCHANGED response
               [] Branch(st.State) = "failed" -> Return(c, FailedEnvelope(st))
               [] OTHER -> pc' = [pc EXCEPT ![c] = "sleep"] /\ UNCHANGED response
       \/ \E m \in ErrorMessages :
          /\ Logged(c, "status", PolledId(c), "RAISED")
          /\ Return(c, ExecuteQueryCatch(m))
          /\ UNCHANGED statusResult
    /\ UNCHANGED <<request, resultLocation, startParams, queryExecutionId,
                   waitTime, results, engine, cancelVars, configVars>>

\* on the timeout the execution is stopped before the envelope is returned
Sleep_StopsOnTimeout(c) ==
    LET w == NextWaitTime(waitTime[c]) IN
    /\ pc[c] = "sleep"
    /\ waitTime' = [waitTime EXCEPT ![c] = w]
    /\ Loop(c, w)
    /\ IF LoopCondition(w, QUERY_TIMEOUT)
       THEN /\ Logged(c, "sleep", ToString(pollInterval), "ok")
            /\ UNCHANGED engine
       ELSE /\ log' = [log EXCEPT ![c] =
                   @ \o <<<<"sleep", ToString(pollInterval), "ok">>,
                          <<"stop", queryExecutionId[c], "ok">>>>]
            /\ engine' = [engine EXCEPT ![queryExecutionId[c]] =
                   IF @ \in NonTerminal THEN "CANCELLED" ELSE @]
    /\ UNCHANGED <<request, resultLocation, startParams, queryExecutionId,
                   statusResult, results, cancelVars, configVars>>

\* the setTimeout(pollInterval) promise resolves; waitTime += pollInterval;
\* the while condition is evaluated again
Sleep(c) ==
    /\ pc[c] = "sleep"
    /\ waitTime' = [waitTime EXCEPT ![c] = NextWaitTime(@)]
    /\ Logged(c, "sleep", ToString(pollInterval), "ok")
    /\ Loop(c, NextWaitTime(waitTime[c]))
    /\ UNCHANGED <<request, resultLocation, startParams, queryExecutionId,
                   statusResult, results, engine, cancelVars, configVars>>

\* a raised result fetch is issued again
Results_Retries(c, resultSets) ==
    /\ pc[c] = "results"
    /\ \/ \E rs \in resultSets :
          /\ results' = [results EXCEPT ![c] = rs]
          /\ Logged(c, "results", PolledId(c), "ok")
          /\ Return(c, SuccessEnvelope(c, Decode(rs)))
       \/ /\ Len(SelectSeq(log[c], LAMBDA e : e[1] = "results")) < 2
          /\ Logged(c, "results", PolledId(c), "raised")
          /\ UNCHANGED <<results, pc, response>>
    /\ UNCHANGED <<request, resultLocation, startParams, queryExecutionId,
                   waitTime, statusResult, engine, cancelVars, configVars>>

\* athena.getQueryResults settles with one of `resultSets`; the results are
\* decoded and the success envelope is returned
Results(c, resultSets) ==
    /\ pc[c] = "results"
    /\ \/ \E rs \in resultSets :
          /\ results' = [results EXCEPT ![c] = rs]
          /\ Logged(c, "results", PolledId(c), "ok")
          /\ Return(c, SuccessEnvelope(c, Decode(rs)))
       \/ \E m \in ErrorMessages :
          /\ Logged(c, "results", PolledId(c), "raised")
          /\ Return(c, ExecuteQueryCatch(m))
          /\ UNCHANGED results
    /\ UNCHANGED <<request, resultLocation, startParams, queryExecutionId,
                   waitTime, statusResult, engine, cancelVars, configVars>>

-----------------------------------------------------------------------------
(* cancelQuery *)

CancelAck(queryId) ==
    [success |-> TRUE,
     data |-> [query_execution_id |-> queryId,
               status |-> "CANCELLED",
               message |-> "Query cancellation requested"]]

\* the stop error swallowed: the acknowledgement is returned all the same
CancelQueryCatch_Swallow(queryId, message) == CancelAck(queryId)

\* catch (error) of cancelQuery
CancelQueryCatch(queryId, message) ==
    [success |-> FALSE, error |-> "Error cancelling query: " \o message]

\* cancelQuery(queryId) is called: the `!athena` guard, then
\* athena.stopQueryExecution is issued
CancelQuery ==
    /\ cancelPc = "idle"
    /\ \E id \in ExecIds : cancelId' = id
    /\ IF athena
       THEN cancelPc' = "stop" /\ UNCHANGED cancelResponse
       ELSE cancelPc' = "done" /\ cancelResponse' = Append(cancelResponse, NotInitialized)
    /\ UNCHANGED <<cancelLog, engine, callVars, configVars>>

\* an accepted stop also ends the executeQuery that is polling the execution
Stop_AbortsPoller ==
    LET polling(c) == queryExecutionId[c] = cancelId /\ pc[c] \in {"status", "sleep"} IN
    /\ cancelPc = "stop"
    /\ cancelPc' = "done"
    /\ \/ /\ engine[cancelId] # "NONE"
          /\ \/ engine[cancelId] \in NonTerminal
                /\ engine' = [engine EXCEPT ![cancelId] = "CANCELLED"]
             \/ UNCHANGED engine
          /\ cancelLog' = Append(cancelLog, <<"stop", cancelId, "ok">>)
          /\ cancelResponse' = Append(cancelResponse, CancelAck(cancelId))
          /\ pc' = [c \in Calls |-> IF polling(c) THEN "done" ELSE pc[c]]
          /\ response' = [c \in Calls |->
                IF polling(c)
                THEN Append(response[c], [success |-> FALSE,
                                          error |-> "Query cancelled: Unknown error"])
                ELSE response[c]]
       \/ \E m \in ErrorMessages :
          /\ cancelLog' = Append(cancelLog, <<"stop", cancelId, "raised">>)
          /\ cancelResponse' = Append(cancelResponse, CancelQueryCatch(cancelId, m))
          /\ UNCHANGED <<engine, pc, response>>
    /\ UNCHANGED <<cancelId, request, resultLocation, startParams, queryExecutionId,
                   waitTime, statusResult, results, log, configVars>>

\* the stop is followed by a status read, and the cancellation is
\* acknowledged only when the engine has the execution CANCELLED
Stop_Confirms ==
    /\ cancelPc = "stop"
    /\ cancelPc' = "done"
    /\ \/ /\ engine[cancelId] # "NONE"
          /\ \/ engine[cancelId] \in NonTerminal
                /\ engine' = [engine EXCEPT ![cancelId] = "CANCELLED"]
             \/ UNCHANGED engine
          /\ cancelLog' = cancelLog \o <<<<"stop", cancelId, "ok">>,
                                         <<"status", cancelId, engine'[cancelId]>>>>
          /\ cancelResponse' = Append(cancelResponse,
                IF engine'[cancelId] = "CANCELLED" THEN CancelAck(cancelId)
                ELSE [success |-> FALSE, error |-> "Query not cancelled"])
       \/ \E m \in ErrorMessages :
          /\ cancelLog' = Append(cancelLog, <<"stop", cancelId, "raised">>)
          /\ cancelResponse' = Append(cancelResponse, CancelQueryCatch(cancelId, m))
          /\ UNCHANGED engine
    /\ UNCHANGED <<cancelId, callVars, configVars>>

\* athena.stopQueryExecution settles.  It is accepted only for an execution
\* the engine knows; an accepted stop moves a QUEUED or RUNNING execution to
\* CANCELLED, or loses the race and leaves the engine's state as it is.
Stop ==
    /\ cancelPc = "stop"
    /\ cancelPc' = "done"
    /\ \/ /\ engine[cancelId] # "NONE"
          /\ \/ engine[cancelId] \in NonTerminal
                /\ engine' = [engine EXCEPT ![cancelId] = "CANCELLED"]
             \/ UNCHANGED engine
          /\ cancelLog' = Append(cancelLog, <<"stop", cancelId, "ok">>)
          /\ cancelResponse' = Append(cancelResponse, CancelAck(cancelId))
       \/ \E m \in ErrorMessages :
          /\ cancelLog' = Append(cancelLog, <<"stop", cancelId, "raised">>)
          /\ cancelResponse' = Append(cancelResponse, CancelQueryCatch(cancelId, m))
          /\ UNCHANGED engine
    /\ UNCHANGED <<cancelId, callVars, configVars>>

-----------------------------------------------------------------------------
(* The remote engine: an execution moves QUEUED -> RUNNING -> terminal on   *)
(* its own                                                                  *)

EngineAdvance(id) ==
    /\ \/ engine[id] = "QUEUED" /\ \E s \in {"RUNNING", "FAILED"} :
             engine' = [engine EXCEPT ![id] = s]
       \/ engine[id] = "RUNNING" /\ \E s \in {"SUCCEEDED", "FAILED"} :
             engine' = [engine EXCEPT ![id] = s]
    /\ UNCHANGED <<callVars, cancelVars, configVars>>

-----------------------------------------------------------------------------
(* Specifications *)

InitCalls ==
    /\ engine = [id \in ExecIds |-> "NONE"]
    /\ pc = [c \in Calls |-> "idle"]
    /\ request = [c \in Calls |-> [sql |-> "", database |-> Absent]]
    /\ resultLocation = [c \in Calls |-> ""]
    /\ startParams = [c \in Calls |-> NoParams]
    /\ queryExecutionId = [c \in Calls |-> ""]
    /\ waitTime = [c \in Calls |-> 0]
    /\ statusResult = [c \in Calls |-> NoStatus]
    /\ results = [c \in Calls |-> Absent]
    /\ response = [c \in Calls |-> <<>>]
    /\ log = [c \in Calls |-> <<>>]
    /\ cancelPc = "idle"
    /\ cancelId = ""
    /\ cancelResponse = <<>>
    /\ cancelLog = <<>>

\* one executeQuery invocation, a cancelQuery and the engine
Init ==
    /\ athena \in BOOLEAN
    /\ QUERY_TIMEOUT \in Timeouts
    /\ active = {1}
    /\ InitCalls

Next ==
    \/ \E c \in Calls : ExecuteQuery(c)
    \/ \E c \in Calls : Identity(c)
    \/ \E c \in Calls : Start(c)
    \/ \E c \in Calls : Status(c)
    \/ \E c \in Calls : Sleep(c)
    \/ \E c \in Calls : Results(c, SampleResultSets)
    \/ CancelQuery
    \/ Stop
    \/ \E id \in ExecIds : EngineAdvance(id)

Spec == Init /\ [][Next]_vars

\* The decoder on every raw result set within the bounds: one invocation that
\* has just read SUCCEEDED and is suspended at athena.getQueryResults
InitDecode ==
    /\ athena = TRUE
    /\ QUERY_TIMEOUT = pollInterval
    /\ active = {1}
    /\ engine = [id \in ExecIds |-> IF id = "exec-1" THEN "SUCCEEDED" ELSE "NONE"]
    /\ pc = [c \in Calls |-> IF c = 1 THEN "results" ELSE "idle"]
    /\ request = [c \in Calls |-> IF c = 1 THEN [sql |-> "SELECT 1", database |-> Absent]
                                   ELSE [sql |-> "", database |-> Absent]]
    /\ resultLocation = [c \in Calls |-> IF c = 1 THEN DefaultLocation ELSE ""]
    /\ startParams = [c \in Calls |->
          IF c = 1 THEN [QueryString |-> "SELECT 1", Database |-> ATHENA_DATABASE,
                         WorkGroup |-> ATHENA_WORKGROUP, OutputLocation |-> DefaultLocation]
          ELSE NoParams]
    /\ queryExecutionId = [c \in Calls |-> IF c = 1 THEN "exec-1" ELSE ""]
    /\ waitTime = [c \in Calls |-> 0]
    /\ statusResult = [c \in Calls |->
          IF c = 1 THEN [State |-> "SUCCEEDED", StateChangeReason |-> Absent,
                         EngineExecutionTimeInMillis |-> Some(1500),
                         DataScannedInBytes |-> Some(1024)]
          ELSE NoStatus]
    /\ results = [c \in Calls |-> Absent]
    /\ response = [c \in Calls |-> <<>>]
    /\ log = [c \in Calls |->
          IF c = 1 THEN <<<<"identity", "", "raised">>, <<"start", "exec-1", "ok">>,
                          <<"status", "exec-1", "SUCCEEDED">>>>
          ELSE <<>>]
    /\ cancelPc = "idle"
    /\ cancelId = ""
    /\ cancelResponse = <<>>
    /\ cancelLog = <<>>

NextDecode == \E c \in Calls : Results(c, RawResultSets)

SpecDecode == InitDecode /\ [][NextDecode]_vars

\* Two execute_query requests in flight at once against one engine (no
\* cancelQuery): the handlers interleave at every await
RequestOf(c) ==
    IF c = 1 THEN [sql |-> "SELECT 1", database |-> Absent]
    ELSE [sql |-> "SELECT id, name FROM t", database |-> Some("sales")]

InitConcurrent ==
    /\ athena = TRUE
    /\ QUERY_TIMEOUT = 2 * pollInterval
    /\ active = {1, 2}
    /\ InitCalls

NextConcurrent ==
    \/ \E c \in Calls : ExecuteQuery(c) /\ request'[c] = RequestOf(c)
    \/ \E c \in Calls : Identity(c)
    \/ \E c \in Calls : Start(c)
    \/ \E c \in Calls : Status(c)
    \/ \E c \in Calls : Sleep(c)
    \/ \E c \in Calls : Results(c, SampleResultSets)
    \/ \E id \in ExecIds : EngineAdvance(id)

SpecConcurrent == InitConcurrent /\ [][NextConcurrent]_vars

\* Every collaborator call of an invocation eventually returns or raises, and
\* the poll timer eventually fires: each await of executeQuery is eventually
\* resumed.  Nothing is assumed of the engine's progress, of cancelQuery or
\* of callers.
Fairness ==
    \A c \in Calls :
        /\ WF_vars(Identity(c))
        /\ WF_vars(Start(c))
        /\ WF_vars(Status(c))
        /\ WF_vars(Sleep(c))
        /\ WF_vars(Results(c, SampleResultSets))

SpecFair == Init /\ [][Next]_vars /\ Fairness

-----------------------------------------------------------------------------
(* Observations on a run *)

Done(c) == pc[c] = "done"

\* the envelope the call returned
Env(c) == response[c][1]

Events(c, op) == SelectSeq(log[c], LAMBDA e : e[1] = op)

\* what the status reads of the call answered, in order
Reads(c) == [i \in 1..Len(Events(c, "status")) |-> Events(c, "status")[i][3]]

Raised(c, op) == \E i \in 1..Len(log[c]) :
    log[c][i][1] = op /\ log[c][i][3] \in {"raised", "RAISED"}

Submitted(c) == \E i \in 1..Len(log[c]) : log[c][i][1] = "start" /\ log[c][i][3] = "ok"

\* Success, Failure or Timeout, read off the envelope
Outcome(c) ==
    IF Env(c).success THEN "Success"
    ELSE IF Env(c).error = "Query timeout after " \o ToString(QUERY_TIMEOUT) \o "ms"
         THEN "Timeout"
         ELSE "Failure"

AllAre(seq, v) == \A i \in 1..Len(seq) : seq[i] = v

Last(seq) == seq[Len(seq)]

Front(seq) == SubSeq(seq, 1, Len(seq) - 1)

-----------------------------------------------------------------------------
(* Claims *)

\* C1: every executeQuery call hands its caller exactly one envelope with a
\* boolean success flag (Success, Failure or Timeout) and never an exception,
\* whichever collaborator call fails: a raised submit, status read or result
\* fetch ends the call with a success = FALSE envelope, a raised identity
\* lookup does not end it.
C1_OneEnvelope ==
    \A c \in Calls :
        /\ Len(response[c]) <= 1
        /\ Done(c) <=> Len(response[c]) = 1
        /\ Done(c) =>
              /\ "success" \in DOMAIN Env(c)
              /\ Env(c).success \in BOOLEAN
              /\ Outcome(c) \in {"Success", "Failure", "Timeout"}
        /\ (Raised(c, "start") \/ Raised(c, "status") \/ Raised(c, "results")) =>
              /\ Done(c)
              /\ "success" \in DOMAIN Env(c)
              /\ Env(c).success = FALSE
              /\ \E m \in ErrorMessages : Env(c).error = "Execution error: " \o m

C1_Witness ==
    \E c \in Calls :
        /\ Done(c)
        /\ Raised(c, "identity")
        /\ Raised(c, "status")
        /\ Len(Reads(c)) = 2
        /\ Env(c).success = FALSE

\* C2: once a status read answered SUCCEEDED, FAILED or CANCELLED, the call
\* makes no further status read and no further sleep and keeps that status
\* result; on FAILED or CANCELLED the call has returned the failure built from
\* that read, on SUCCEEDED it is fetching the results or has returned.
C2_TerminalEndsPolling ==
    /\ [](\A c \in Calls :
            (Reads(c) # <<>> /\ Last(Reads(c)) \in Terminal) =>
                /\ statusResult[c].State = Last(Reads(c))
                /\ Last(log[c])[1] \in {"status", "results"}
                /\ Last(Reads(c)) = "SUCCEEDED" => pc[c] \in {"results", "done"}
                /\ Last(Reads(c)) \in {"FAILED", "CANCELLED"} =>
                      /\ Done(c)
                      /\ Outcome(c) = "Failure"
                      /\ ~Raised(c, "status"))
    /\ [][\A c \in Calls :
            (Reads(c) # <<>> /\ Last(Reads(c)) \in Terminal) =>
                /\ Events(c, "status")' = Events(c, "status")
                /\ Events(c, "sleep")' = Events(c, "sleep")
                /\ statusResult'[c] = statusResult[c]
                /\ waitTime'[c] = waitTime[c]]_vars

C2_Witness ==
    \E c \in Calls :
        /\ Done(c)
        /\ Len(Reads(c)) = 3
        /\ Last(Reads(c)) = "CANCELLED"
        /\ cancelPc = "done"

\* C3: a call whose submission succeeded makes at least one status read
\* before it returns Timeout, for every timeout including 0.
C3_Original ==
    \A c \in Calls :
        (Done(c) /\ Submitted(c) /\ Outcome(c) = "Timeout") => Len(Reads(c)) >= 1

\* the engine answered QUEUED on the first N status reads of the call's
\* execution and answers SUCCEEDED on the next one: read N+1 answered
\* SUCCEEDED or, if the call made only N reads, the execution is SUCCEEDED
QueuedThenSucceeded(c, N) ==
    /\ Len(Reads(c)) >= N
    /\ AllAre(SubSeq(Reads(c), 1, N), "QUEUED")
    /\ IF Len(Reads(c)) > N
       THEN Reads(c)[N + 1] = "SUCCEEDED"
       ELSE engine[queryExecutionId[c]] = "SUCCEEDED"

\* C4 as stated (for a timeout > 0): for every N, when the engine answers
\* QUEUED on the first N status reads and SUCCEEDED on the next one, the call
\* makes exactly N+1 status reads and returns Success.
C4_Original ==
    \A c \in Calls :
        (Done(c) /\ Submitted(c) /\ QUERY_TIMEOUT > 0) =>
            \A N \in 0..Len(Reads(c)) :
                QueuedThenSucceeded(c, N) =>
                    Len(Reads(c)) = N + 1 /\ Outcome(c) = "Success"

\* C4, amended: after N status reads that all answered QUEUED the call goes
\* on to read N+1 exactly when N * pollInterval < timeout, and otherwise
\* returns Timeout; when read N+1 answers SUCCEEDED the call fetches the
\* results and returns Success if the fetch returns, Failure if it raises.
C4_Amended ==
    \A c \in Calls :
        Submitted(c) =>
            LET r == Reads(c)
                N == Len(Reads(c))
            IN /\ (AllAre(r, "QUEUED") /\ N * pollInterval < QUERY_TIMEOUT) =>
                      pc[c] \in {"status", "sleep"}
               /\ (AllAre(r, "QUEUED") /\ N * pollInterval >= QUERY_TIMEOUT) =>
                      /\ pc[c] \in {"sleep", "done"}
                      /\ Done(c) => Outcome(c) = "Timeout"
               /\ (N >= 1 /\ AllAre(Front(r), "QUEUED") /\ Last(r) = "SUCCEEDED") =>
                      /\ (N - 1) * pollInterval < QUERY_TIMEOUT
                      /\ pc[c] \in {"results", "done"}
                      /\ Done(c) => (Outcome(c) = "Success" <=> ~Raised(c, "results"))
                      /\ Done(c) => (Outcome(c) = "Failure" <=> Raised(c, "results"))

C4_Witness ==
    \E c \in Calls :
        /\ Done(c)
        /\ Reads(c) = <<"QUEUED", "QUEUED", "SUCCEEDED">>
        /\ Outcome(c) = "Success"
        /\ QUERY_TIMEOUT = 3 * pollInterval

\* C5 as stated: when the engine answers QUEUED on N status reads and then
\* SUCCEEDED, the Success envelope's execution_time_ms is N * pollInterval.
C5_Original ==
    \A c \in Calls :
        (Done(c) /\ Outcome(c) = "Success") =>
            Env(c).data.execution_time_ms = (Len(Reads(c)) - 1) * pollInterval

\* C5, amended: the Success envelope's execution_time_ms is the
\* EngineExecutionTimeInMillis of the status read that answered SUCCEEDED
\* (0 when the engine sent none); the poller's accumulated wait, which is
\* pollInterval times the number of reads before that one, is not reported.
C5_Amended ==
    \A c \in Calls :
        (Done(c) /\ Outcome(c) = "Success") =>
            LET t == statusResult[c].EngineExecutionTimeInMillis IN
            /\ statusResult[c].State = "SUCCEEDED"
            /\ Env(c).data.execution_time_ms = IF t = Absent THEN 0 ELSE t[1]
            /\ waitTime[c] = (Len(Reads(c)) - 1) * pollInterval

C5_Witness ==
    \E c \in Calls :
        /\ Done(c)
        /\ Outcome(c) = "Success"
        /\ Reads(c) = <<"QUEUED", "QUEUED", "SUCCEEDED">>
        /\ Env(c).data.execution_time_ms = 1500

\* C6: when every status read answers RUNNING and the timeout is
\* k * pollInterval with k >= 1, the call makes at most k + 1 status reads,
\* never fetches results, and the envelope it returns is the Timeout one.
C6_RunningForeverTimesOut ==
    \A c \in Calls :
        \A k \in 1..MaxTimeoutHalves :
            (Submitted(c) /\ QUERY_TIMEOUT = k * pollInterval
                /\ AllAre(Reads(c), "RUNNING")) =>
                    /\ Len(Reads(c)) <= k + 1
                    /\ Events(c, "results") = <<>>
                    /\ pc[c] # "results"
                    /\ Done(c) => Outcome(c) = "Timeout"
                    /\ Done(c) => Env(c).error = "Query timeout after "
                                      \o ToString(k * pollInterval) \o "ms"

C6_Witness ==
    \E c \in Calls :
        /\ Done(c)
        /\ QUERY_TIMEOUT = 3 * pollInterval
        /\ Reads(c) = <<"RUNNING", "RUNNING", "RUNNING">>
        /\ Outcome(c) = "Timeout"

\* the reason the engine sent with the last status read, as the claim takes it
EngineReason(c) ==
    IF statusResult[c].StateChangeReason = Absent THEN "Unknown error"
    ELSE statusResult[c].StateChangeReason[1]

\* C7 as stated: when a status read answers FAILED or CANCELLED, the Failure
\* reason is the engine's reason string itself ("syntax error" for reason
\* "syntax error"), and "Unknown error" when the engine sent none.
C7_Original ==
    \A c \in Calls :
        (Done(c) /\ Reads(c) # <<>> /\ Last(Reads(c)) \in {"FAILED", "CANCELLED"}) =>
            /\ Outcome(c) = "Failure"
            /\ Env(c).error = EngineReason(c)

\* C7, amended: when a status read answers FAILED or CANCELLED, the call
\* returns Failure whose error is "Query failed: " or "Query cancelled: "
\* followed by the engine's reason, or by "Unknown error" when the engine
\* sent no reason or an empty one.
C7_Amended ==
    \A c \in Calls :
        (Done(c) /\ Reads(c) # <<>> /\ Last(Reads(c)) \in {"FAILED", "CANCELLED"}) =>
            LET reason == statusResult[c].StateChangeReason
                prefix == IF Last(Reads(c)) = "FAILED" THEN "Query failed: "
                          ELSE "Query cancelled: "
            IN /\ Outcome(c) = "Failure"
               /\ reason = Some("syntax error") =>
                     Env(c).error = prefix \o "syntax error"
               /\ reason \in {Absent, Some("")} =>
                     Env(c).error = prefix \o "Unknown error"

C7_Witness ==
    \E c \in Calls :
        /\ Done(c)
        /\ Reads(c) = <<"QUEUED", "FAILED">>
        /\ statusResult[c].StateChangeReason = Some("syntax error")
        /\ Env(c).error = "Query failed: syntax error"

\* C8 as stated (with the Athena client initialised): cancelQuery returns the
\* acknowledgement with status "CANCELLED" and the "cancellation requested"
\* message for every outcome of the stop call, also when it raises.
C8_Original ==
    (athena /\ cancelPc = "done") =>
        /\ Len(cancelResponse) = 1
        /\ cancelResponse[1].success = TRUE
        /\ cancelResponse[1].data.status = "CANCELLED"
        /\ cancelResponse[1].data.message = "Query cancellation requested"

\* C8, amended: with the Athena client initialised, cancelQuery returns the
\* acknowledgement (status "CANCELLED", "Query cancellation requested")
\* whenever the stop call returns, whatever state the execution is in, also
\* when the stop lost the race to a completed query; when the stop call
\* raises it returns success = FALSE with "Error cancelling query: " and the
\* error's message.
C8_Amended ==
    (athena /\ cancelPc = "done") =>
        /\ Len(cancelResponse) = 1
        /\ Len(cancelLog) = 1
        /\ cancelLog[1][3] = "ok" =>
              /\ cancelResponse[1].success = TRUE
              /\ cancelResponse[1].data =
                    [query_execution_id |-> cancelId,
                     status |-> "CANCELLED",
                     message |-> "Query cancellation requested"]
        /\ cancelLog[1][3] = "raised" =>
              /\ cancelResponse[1].success = FALSE
              /\ \E m \in ErrorMessages :
                    cancelResponse[1].error = "Error cancelling query: " \o m

\* an acknowledged cancel of an execution that completed, and the poller of
\* that execution returned Success
C8_Witness ==
    /\ athena
    /\ cancelPc = "done"
    /\ cancelLog = <<<<"stop", "exec-1", "ok">>>>
    /\ cancelResponse[1].success = TRUE
    /\ engine["exec-1"] = "SUCCEEDED"
    /\ Done(1)
    /\ Outcome(1) = "Success"

\* C9: when the identity lookup raises, the result location is the region's
\* default URI, the call goes on to submit with that location as the output
\* location, and a Failure outcome of such a call always has another cause:
\* a raised submit, status read or result fetch, or a FAILED or CANCELLED read.
C9_IdentityFailureFallsBack ==
    \A c \in Calls :
        Raised(c, "identity") =>
            /\ resultLocation[c] = "s3://aws-athena-query-results-us-east-1-default/"
            /\ startParams[c].OutputLocation = resultLocation[c]
            /\ pc[c] \notin {"idle", "identity"}
            /\ Done(c) => Events(c, "start") # <<>>
            /\ (Done(c) /\ Outcome(c) = "Failure") =>
                  \/ Raised(c, "start")
                  \/ Raised(c, "status")
                  \/ Raised(c, "results")
                  \/ Reads(c) # <<>> /\ Last(Reads(c)) \in {"FAILED", "CANCELLED"}

C9_Witness ==
    \E c \in Calls :
        /\ Raised(c, "identity")
        /\ Done(c)
        /\ Outcome(c) = "Success"
        /\ startParams[c].OutputLocation = DefaultLocation

\* the key and the value the cell at (1-based) position i of a row go to
KeyAt(columns, i) ==
    IF i <= Len(columns) /\ columns[i] # "" THEN columns[i]
    ELSE "col_" \o ToString(i - 1)

ValueAt(data, i) == IF data[i] = Absent THEN "" ELSE data[i][1]

CellsOf(row) == IF row = Absent THEN <<>> ELSE row[1]

\* obj is the raw row decoded against columns: one key per cell, holding the
\* value of the last cell that goes to that key
IsRowOf(obj, columns, row) ==
    LET data == CellsOf(row) IN
    /\ DOMAIN obj = {KeyAt(columns, i) : i \in 1..Len(data)}
    /\ \A i \in 1..Len(data) :
          (\A i2 \in (i + 1)..Len(data) : KeyAt(columns, i2) # KeyAt(columns, i)) =>
              obj[KeyAt(columns, i)] = ValueAt(data, i)

\* the fetched result set has n >= 1 raw rows and no column metadata
HeaderCase(c) ==
    /\ Done(c)
    /\ Outcome(c) = "Success"
    /\ results[c] # Absent
    /\ results[c][1].ColumnInfo \in {Absent, Some(<<>>)}
    /\ results[c][1].Rows # Absent
    /\ Len(results[c][1].Rows[1]) >= 1

\* C10: when the raw result set carries no column metadata, the cells of its
\* first raw row become the column names in cell order and that row is not
\* emitted: the decoded rows are raw rows 2..n in order and row_count = n - 1.
C10_FirstRowIsHeader ==
    \A c \in Calls :
        HeaderCase(c) =>
            LET raw == results[c][1].Rows[1]
                n == Len(results[c][1].Rows[1])
                data == Env(c).data
            IN /\ Len(data.columns) = Len(CellsOf(raw[1]))
               /\ \A i \in 1..Len(data.columns) :
                     data.columns[i] = ValueAt(CellsOf(raw[1]), i)
               /\ Len(data.rows) = n - 1
               /\ data.row_count = n - 1
               /\ \A j \in 1..(n - 1) : IsRowOf(data.rows[j], data.columns, raw[j + 1])

C10_Witness ==
    \E c \in Calls :
        /\ HeaderCase(c)
        /\ results[c][1].ColumnInfo = Absent
        /\ Len(results[c][1].Rows[1]) = 2
        /\ results[c][1].Rows[1][2] = Some(<<Absent, Some("id")>>)
        /\ Env(c).data.columns = <<"id", "">>
        /\ Env(c).data.row_count = 1
        /\ Env(c).data.rows = <<[id |-> "", col_1 |-> "id"]>>

\* the call returned Success for a fetched result set that has a Rows list
DecodedCase(c) ==
    /\ Done(c)
    /\ Outcome(c) = "Success"
    /\ results[c] # Absent
    /\ results[c][1].Rows # Absent

\* the number of leading raw rows taken for the column names (0 or 1)
HeaderRows(c) ==
    IF results[c][1].ColumnInfo \in {Absent, Some(<<>>)} /\ Len(results[c][1].Rows[1]) >= 1
    THEN 1 ELSE 0

\* the raw row the j-th decoded row of the call comes from
RawRowOf(c, j) == results[c][1].Rows[1][j + HeaderRows(c)]

\* C11 as stated: every decoded row has a value at every column index; for a
\* raw row with fewer cells than known columns, each missing index i is in the
\* decoded row as an empty string under the key col_<i>.
C11_Original ==
    \A c \in Calls :
        DecodedCase(c) =>
            LET data == Env(c).data IN
            \A j \in 1..Len(data.rows) :
                \A i \in (Len(CellsOf(RawRowOf(c, j))) + 1)..Len(data.columns) :
                    /\ ColKey(i - 1) \in DOMAIN data.rows[j]
                    /\ data.rows[j][ColKey(i - 1)] = ""

\* C11 amended: a decoded row has an entry for each cell present in its raw
\* row and for nothing else: cell i goes under the name of column i, or under
\* col_<i> when there is no column i or its name is empty, and a cell without
\* a value is the empty string.  A raw row with fewer cells than known
\* columns gets no entry for the missing indexes, so the decoded row never
\* has more keys than the raw row has cells.
C11_Amended ==
    \A c \in Calls :
        DecodedCase(c) =>
            LET data == Env(c).data IN
            \A j \in 1..Len(data.rows) :
                LET cells == CellsOf(RawRowOf(c, j)) IN
                /\ IsRowOf(data.rows[j], data.columns, RawRowOf(c, j))
                /\ Cardinality(DOMAIN data.rows[j]) <= Len(cells)
                /\ \A i \in (Len(cells) + 1)..Len(data.columns) :
                      (\A i2 \in 1..Len(cells) :
                          KeyAt(data.columns, i2) # KeyAt(data.columns, i)) =>
                              KeyAt(data.columns, i) \notin DOMAIN data.rows[j]

C11_Witness ==
    \E c \in Calls :
        /\ DecodedCase(c)
        /\ results[c][1].ColumnInfo = Some(<<Some("id"), Absent>>)
        /\ results[c][1].Rows = Some(<<Some(<<Some("id")>>), Some(<<>>)>>)
        /\ Env(c).data.columns = <<"id", "">>
        /\ Env(c).data.rows = <<[id |-> "id"], <<>>>>

\* C12: in every Success envelope row_count is the length of rows, and columns
\* lists the column names in the order the engine sent them: the ColumnInfo
\* names in metadata order, or without metadata the cells of the first raw
\* row in cell order (a missing name or value being the empty string).
C12_CountAndColumnOrder ==
    \A c \in Calls :
        (Done(c) /\ Outcome(c) = "Success") =>
            LET data == Env(c).data IN
            /\ data.row_count = Len(data.rows)
            /\ results[c] = Absent => data.columns = <<>>
            /\ results[c] # Absent =>
                  LET rs == results[c][1]
                      sent == IF rs.ColumnInfo \notin {Absent, Some(<<>>)}
                              THEN rs.ColumnInfo[1]
                              ELSE IF rs.Rows # Absent /\ Len(rs.Rows[1]) >= 1
                                   THEN CellsOf(rs.Rows[1][1])
                                   ELSE <<>>
                  IN /\ Len(data.columns) = Len(sent)
                     /\ \A i \in 1..Len(sent) : data.columns[i] = ValueAt(sent, i)

C12_Witness ==
    \E c \in Calls :
        /\ Done(c)
        /\ Outcome(c) = "Success"
        /\ results[c] # Absent
        /\ results[c][1].ColumnInfo = Some(<<Absent, Some("id")>>)
        /\ results[c][1].Rows # Absent
        /\ Len(results[c][1].Rows[1]) = 2
        /\ Env(c).data.columns = <<"", "id">>
        /\ Env(c).data.row_count = 2

\* C13: within one call the collaborator calls happen in the order identity
\* lookup, submit, status reads, result fetch.  The identity lookup is the
\* first call to settle and the submit the second, so the submit is in flight
\* only once the lookup has returned or failed; a status read is in flight or
\* has settled only after the submit returned a handle, and it reads that
\* handle; the result fetch is in flight or has settled only when the status
\* read just before it answered SUCCEEDED.
C13_CallOrder ==
    \A c \in Calls :
        /\ \A i \in 1..Len(log[c]) :
              /\ log[c][i][1] = "identity" <=> i = 1
              /\ log[c][i][1] = "start" <=> i = 2
              /\ log[c][i][1] = "status" =>
                    /\ i > 2
                    /\ log[c][2] = <<"start", log[c][i][2], "ok">>
              /\ log[c][i][1] = "results" =>
                    /\ i > 3
                    /\ log[c][i - 1] = <<"status", log[c][i][2], "SUCCEEDED">>
        /\ pc[c] = "identity" => log[c] = <<>>
        /\ pc[c] = "start" => Len(log[c]) = 1
        /\ pc[c] = "status" => Submitted(c) /\ Last(log[c])[1] \in {"start", "sleep"}
        /\ pc[c] = "results" => Last(log[c]) = <<"status", queryExecutionId[c], "SUCCEEDED">>

C13_Witness ==
    \E c \in Calls :
        /\ Done(c)
        /\ Outcome(c) = "Success"
        /\ Len(Reads(c)) = 3
        /\ [i \in 1..Len(log[c]) |-> log[c][i][1]] =
              <<"identity", "start", "status", "sleep", "status", "sleep",
                "status", "results">>

\* the call left the while loop through its condition: it submitted, no
\* collaborator call after the identity lookup raised, and no status read
\* answered a terminal status
LoopExhausted(c) ==
    /\ Done(c)
    /\ Submitted(c)
    /\ ~Raised(c, "status")
    /\ \A i \in 1..Len(Reads(c)) : Reads(c)[i] \notin Terminal

\* C14: a call returns Timeout only if every status read of the call answered
\* a non-terminal status and the accumulated wait (one poll interval per
\* read) has reached QUERY_TIMEOUT; the Timeout envelope is exactly
\* {success: false, error: 'Query timeout after <QUERY_TIMEOUT>ms'}: it
\* carries the configured limit, not the accumulated wait, and no engine
\* reason.
C14_TimeoutOnlyWhenExhausted ==
    \A c \in Calls :
        /\ (Done(c) /\ Outcome(c) = "Timeout") =>
              /\ LoopExhausted(c)
              /\ waitTime[c] >= QUERY_TIMEOUT
              /\ waitTime[c] = pollInterval * Len(Reads(c))
        /\ LoopExhausted(c) =>
              Env(c) = [success |-> FALSE,
                        error |-> "Query timeout after " \o ToString(QUERY_TIMEOUT) \o "ms"]

C14_Witness ==
    \E c \in Calls :
        /\ Done(c)
        /\ Outcome(c) = "Timeout"
        /\ Reads(c) = <<"QUEUED", "ABSENT">>
        /\ QUERY_TIMEOUT = 3000
        /\ waitTime[c] = 4000
        /\ Env(c).error = "Query timeout after 3000ms"

\* C15 as stated: when the engine rejects the submission the call returns a
\* failure whose reason is the engine's error text verbatim.
C15_Original ==
    \A c \in Calls :
        Raised(c, "start") =>
            /\ Done(c)
            /\ Env(c).success = FALSE
            /\ Env(c).error \in ErrorMessages

\* C15 amended: when the engine rejects the submission the call returns
\* {success: false, error: 'Execution error: ' + the engine's error text},
\* the text itself unchanged after that prefix, and makes no status read,
\* sleep or result fetch.
C15_Amended ==
    \A c \in Calls :
        Raised(c, "start") =>
            /\ Done(c)
            /\ \E m \in ErrorMessages :
                  Env(c) = [success |-> FALSE, error |-> "Execution error: " \o m]
            /\ Len(log[c]) = 2
            /\ queryExecutionId[c] = ""

C15_Witness ==
    \E c \in Calls :
        /\ Raised(c, "start")
        /\ ~Raised(c, "identity")
        /\ Done(c)
        /\ Env(c).error = "Execution error: Rate exceeded"

\* the column names and the raw data rows a fetched result carries
SentColumns(res) ==
    IF res = Absent THEN <<>>
    ELSE IF res[1].ColumnInfo \notin {Absent, Some(<<>>)} THEN res[1].ColumnInfo[1]
    ELSE IF res[1].Rows # Absent /\ Len(res[1].Rows[1]) >= 1
         THEN CellsOf(res[1].Rows[1][1])
         ELSE <<>>

SentRows(res) ==
    IF res = Absent \/ res[1].Rows = Absent THEN <<>>
    ELSE IF res[1].ColumnInfo \in {Absent, Some(<<>>)} /\ Len(res[1].Rows[1]) >= 1
         THEN SubSeq(res[1].Rows[1], 2, Len(res[1].Rows[1]))
         ELSE res[1].Rows[1]

\* C16: decoding is stateless.  With two calls decoding in every
\* interleaving, the columns and rows a call returns are those of the raw
\* result set it fetched itself and of nothing else, so two calls that
\* fetched the same raw result set return identical columns and rows, and a
\* call that fetched an empty result returns none whatever the other call
\* decoded.
C16_DecodeStateless ==
    /\ \A c \in Calls :
          (Done(c) /\ Outcome(c) = "Success") =>
              LET data == Env(c).data IN
              /\ Len(data.columns) = Len(SentColumns(results[c]))
              /\ \A i \in 1..Len(data.columns) :
                    data.columns[i] = ValueAt(SentColumns(results[c]), i)
              /\ Len(data.rows) = Len(SentRows(results[c]))
              /\ \A j \in 1..Len(data.rows) :
                    IsRowOf(data.rows[j], data.columns, SentRows(results[c])[j])
    /\ \A c1, c2 \in Calls :
          (/\ Done(c1) /\ Outcome(c1) = "Success"
           /\ Done(c2) /\ Outcome(c2) = "Success"
           /\ results[c1] = results[c2]) =>
              /\ Env(c1).data.columns = Env(c2).data.columns
              /\ Env(c1).data.rows = Env(c2).data.rows

C16_Witness ==
    /\ \A c \in Calls : Done(c) /\ Outcome(c) = "Success"
    /\ results[1] = results[2]
    /\ results[1] # Absent
    /\ results[1][1].ColumnInfo = Absent
    /\ queryExecutionId[1] # queryExecutionId[2]
    /\ Env(1).data.columns = <<"id", "name">>
    /\ Env(2).data.rows = <<[id |-> "1", name |-> "ann"], [id |-> "2"]>>

\* the failure envelopes of a read that answered CANCELLED
CancelledEnvelopes ==
    {[success |-> FALSE, error |-> "Query cancelled: " \o OrStr(r, "Unknown error")] :
        r \in Reasons}

\* C17: a cancelQuery for the execution an executeQuery is polling changes
\* none of that call's state: every step of cancelQuery (its entry and the
\* settling of its stop) leaves the call's suspension point, wait counter,
\* status result, history and response as they are.  Once the engine has the
\* execution CANCELLED, a status read of it that answers with a state answers
\* CANCELLED and the call returns 'Query cancelled: <reason>' in that same
\* step; after a read that answered CANCELLED the call has returned and that
\* read is the last collaborator call it made.
C17_CancelLeavesPollerAlone ==
    /\ [][cancelVars' # cancelVars => UNCHANGED callVars]_vars
    /\ [][\A c \in Calls :
            (/\ pc[c] = "status"
             /\ engine[queryExecutionId[c]] = "CANCELLED"
             /\ log'[c] # log[c]
             /\ Last(log'[c])[3] \notin {"ABSENT", "RAISED"}) =>
                /\ Last(log'[c]) = <<"status", queryExecutionId[c], "CANCELLED">>
                /\ pc'[c] = "done"
                /\ Len(response'[c]) = 1
                /\ response'[c][1] \in CancelledEnvelopes]_vars
    /\ [](\A c \in Calls :
            (Reads(c) # <<>> /\ Last(Reads(c)) = "CANCELLED") =>
                /\ Done(c)
                /\ Last(log[c])[1] = "status"
                /\ Env(c) \in CancelledEnvelopes)

C17_Witness ==
    \E c \in Calls :
        /\ cancelPc = "done"
        /\ cancelLog = <<<<"stop", queryExecutionId[c], "ok">>>>
        /\ Reads(c) = <<"QUEUED", "CANCELLED">>
        /\ waitTime[c] = pollInterval
        /\ Done(c)
        /\ Env(c).error = "Query cancelled: Unknown error"

\* the handle the call's own submit returned
OwnHandle(c) == log[c][2][2]

\* the envelope the call's own collaborator responses determine
OwnEnvelope(c) ==
    IF Raised(c, "start") \/ Raised(c, "status") \/ Raised(c, "results")
    THEN [success |-> FALSE, error |-> "Execution error: Rate exceeded"]
    ELSE IF Reads(c) # <<>> /\ Last(Reads(c)) \in {"FAILED", "CANCELLED"}
    THEN [success |-> FALSE,
          error |-> "Query " \o toLowerCase(Last(Reads(c))) \o ": "
                       \o OrStr(statusResult[c].StateChangeReason, "Unknown error")]
    ELSE IF Reads(c) # <<>> /\ Last(Reads(c)) = "SUCCEEDED"
    THEN [success |-> TRUE,
          data |-> [query_execution_id |-> OwnHandle(c),
                    status |-> "SUCCEEDED",
                    columns |-> Decode(results[c]).columns,
                    rows |-> Decode(results[c]).rows,
                    row_count |-> Len(SentRows(results[c])),
                    data_scanned_bytes |-> OrNum(statusResult[c].DataScannedInBytes, 0),
                    execution_time_ms |->
                        OrNum(statusResult[c].EngineExecutionTimeInMillis, 0)]]
    ELSE [success |-> FALSE,
          error |-> "Query timeout after " \o ToString(QUERY_TIMEOUT) \o "ms"]

\* C18: concurrent executeQuery invocations are independent.  Two
\* invocations that both submitted hold different handles; every status read
\* and result fetch of an invocation names the handle its own submit
\* returned, and a status read that answers with a state answers the
\* engine's state of that handle; a step of one invocation changes nothing of
\* the other; and the envelope an invocation returns is the one determined
\* by the responses to its own collaborator calls, as when it runs alone.
C18_Independent ==
    /\ [](\A c \in Calls :
            /\ \A i \in 1..Len(log[c]) :
                  log[c][i][1] \in {"status", "results"} =>
                      /\ log[c][i][2] = OwnHandle(c)
                      /\ log[c][i][2] = queryExecutionId[c]
            /\ \A d \in Calls \ {c} :
                  (Submitted(c) /\ Submitted(d)) => OwnHandle(c) # OwnHandle(d)
            /\ Done(c) /\ athena => Env(c) = OwnEnvelope(c))
    /\ [][\A c \in Calls :
            (pc[c] = "status" /\ log'[c] # log[c]
                /\ Last(log'[c])[3] \notin {"ABSENT", "RAISED"}) =>
                    Last(log'[c])[3] = engine[OwnHandle(c)]]_vars
    /\ [][\A c \in Calls :
            (pc'[c] # pc[c] \/ log'[c] # log[c]) =>
                \A d \in Calls \ {c} :
                    /\ pc'[d] = pc[d]
                    /\ log'[d] = log[d]
                    /\ request'[d] = request[d]
                    /\ startParams'[d] = startParams[d]
                    /\ queryExecutionId'[d] = queryExecutionId[d]
                    /\ waitTime'[d] = waitTime[d]
                    /\ statusResult'[d] = statusResult[d]
                    /\ results'[d] = results[d]
                    /\ response'[d] = response[d]]_vars

C18_Witness ==
    /\ \A c \in Calls : Done(c)
    /\ queryExecutionId[1] = "exec-2"
    /\ queryExecutionId[2] = "exec-1"
    /\ Reads(1) = <<"QUEUED", "SUCCEEDED">>
    /\ Reads(2) = <<"FAILED">>
    /\ Env(1).success
    /\ Env(1).data.query_execution_id = "exec-2"
    /\ Env(2).error = "Query failed: syntax error"

\* C19: when a status read raises, the call returns the 'Execution error'
\* failure in that step: the raised read is the last collaborator call of the
\* invocation (no retry, no further status read, sleep or result fetch), it
\* is the only read that raised, and this holds whatever the engine's state of
\* the execution is or becomes.
C19_RaisedReadEndsCall ==
    \A c \in Calls :
        Raised(c, "status") =>
            /\ Done(c)
            /\ Last(log[c]) = <<"status", queryExecutionId[c], "RAISED">>
            /\ \A i \in 1..(Len(Reads(c)) - 1) : Reads(c)[i] \in {"QUEUED", "RUNNING", "ABSENT"}
            /\ Events(c, "results") = <<>>
            /\ Len(Events(c, "sleep")) = Len(Reads(c)) - 1
            /\ \E m \in ErrorMessages :
                  response[c] = <<[success |-> FALSE, error |-> "Execution error: " \o m]>>

C19_Witness ==
    \E c \in Calls :
        /\ Done(c)
        /\ Reads(c) = <<"QUEUED", "RAISED">>
        /\ waitTime[c] + pollInterval < QUERY_TIMEOUT
        /\ engine[queryExecutionId[c]] = "SUCCEEDED"
        /\ Env(c).error = "Execution error: Rate exceeded"

\* the submit of the call has been issued
SubmitIssued(c) == Len(log[c]) >= 1 /\ pc[c] # "idle"

\* the location the resolver returned in this call
ResolvedLocation(c) ==
    IF log[c][1][3] = "ok"
    THEN "s3://aws-athena-query-results-us-east-1-123456789012/"
    ELSE "s3://aws-athena-query-results-us-east-1-default/"

\* C20 as stated: the submit receives the caller's SQL unmodified, the
\* caller's database when one is given and the configured default database
\* when it is omitted, the configured workgroup, and the result location the
\* resolver returned in the same call.
C20_Original ==
    \A c \in Calls :
        SubmitIssued(c) =>
            /\ startParams[c].QueryString = request[c].sql
            /\ startParams[c].Database =
                  (IF request[c].database = Absent THEN "default"
                   ELSE request[c].database[1])
            /\ startParams[c].WorkGroup = "primary"
            /\ startParams[c].OutputLocation = ResolvedLocation(c)

\* C20 amended: the submit receives the caller's SQL unmodified, the caller's
\* database when a non-empty one is given and the configured default
\* database when it is omitted or empty, the configured workgroup, and the
\* result location the resolver returned in the same call.
C20_Amended ==
    \A c \in Calls :
        SubmitIssued(c) =>
            /\ startParams[c].QueryString = request[c].sql
            /\ startParams[c].Database =
                  (IF request[c].database \in {Absent, Some("")} THEN "default"
                   ELSE request[c].database[1])
            /\ startParams[c].WorkGroup = "primary"
            /\ startParams[c].OutputLocation = ResolvedLocation(c)
            /\ resultLocation[c] = ResolvedLocation(c)

C20_Witness ==
    \E c \in Calls :
        /\ Submitted(c)
        /\ request[c] = [sql |-> "SELECT 1", database |-> Some("")]
        /\ startParams[c] =
              [QueryString |-> "SELECT 1", Database |-> "default", WorkGroup |-> "primary",
               OutputLocation |-> "s3://aws-athena-query-results-us-east-1-123456789012/"]

\* C21: each call on an initialised client makes exactly one identity lookup
\* and at most one submit.  A call past the lookup has one identity event of
\* its own, whatever any other call resolved before, and its result location
\* is the one that lookup gave; a call has at most one submit event; a
\* rejected submit ends the call with no status read.
C21_OneLookupOneSubmit ==
    \A c \in Calls :
        /\ Len(Events(c, "identity")) <= 1
        /\ Len(Events(c, "start")) <= 1
        /\ pc[c] \in {"start", "status", "sleep", "results"} =>
              Len(Events(c, "identity")) = 1
        /\ (Done(c) /\ athena) => Len(Events(c, "identity")) = 1
        /\ Len(Events(c, "identity")) = 1 =>
              resultLocation[c] = ResolvedLocation(c)
        /\ Raised(c, "start") =>
              /\ Done(c)
              /\ Reads(c) = <<>>
              /\ Last(log[c])[1] = "start"

C21_Witness ==
    /\ Done(1) /\ Done(2)
    /\ log[1][1] = <<"identity", "", "ok">>
    /\ log[2][1] = <<"identity", "", "raised">>
    /\ resultLocation[1] # resultLocation[2]
    /\ Raised(2, "start")
    /\ Len(log[2]) = 2
    /\ Outcome(1) = "Success"

\* the status reads of the call that answered a non-terminal status (QUEUED,
\* RUNNING or no state)
NonTerminalReads(c) ==
    Cardinality({i \in 1..Len(Reads(c)) : Reads(c)[i] \in {"QUEUED", "RUNNING", "ABSENT"}})

\* C22: waitTime starts at 0 and grows by exactly pollInterval per
\* non-terminal status read, every sleep lasting pollInterval: once the sleep
\* after the k-th non-terminal read is over waitTime = k * pollInterval
\* (while that sleep is pending it is (k - 1) * pollInterval), and when the
\* call returns the timeout, QUERY_TIMEOUT <= waitTime < QUERY_TIMEOUT +
\* pollInterval.
C22_ElapsedArithmetic ==
    \A c \in Calls :
        /\ ~Submitted(c) => waitTime[c] = 0
        /\ \A i \in 1..Len(Events(c, "sleep")) :
              Events(c, "sleep")[i] = <<"sleep", "2000", "ok">>
        /\ Len(Events(c, "sleep")) =
              NonTerminalReads(c) - (IF pc[c] = "sleep" THEN 1 ELSE 0)
        /\ waitTime[c] = 2000 * Len(Events(c, "sleep"))
        /\ (Done(c) /\ Outcome(c) = "Timeout") =>
              /\ QUERY_TIMEOUT <= waitTime[c]
              /\ waitTime[c] < QUERY_TIMEOUT + 2000

C22_Witness ==
    \E c \in Calls :
        /\ Done(c)
        /\ Outcome(c) = "Timeout"
        /\ QUERY_TIMEOUT = 5000
        /\ NonTerminalReads(c) = 3
        /\ waitTime[c] = 6000

\* the call returned Success for a result set with a ColumnInfo list and rows
MetadataCase(c) ==
    /\ DecodedCase(c)
    /\ results[c][1].ColumnInfo # Absent

\* the decoded rows are all the raw rows, one for one and in order
AllRowsDecoded(c) ==
    LET raw == results[c][1].Rows[1]
        data == Env(c).data
    IN /\ Len(data.rows) = Len(raw)
       /\ data.row_count = Len(raw)
       /\ \A j \in 1..Len(raw) : IsRowOf(data.rows[j], data.columns, raw[j])

\* C23 as stated: when the raw result set carries column metadata, the
\* column names come from the metadata and every raw row, the first
\* included, is decoded as a data row, in the same count and order.
C23_Original ==
    \A c \in Calls :
        MetadataCase(c) =>
            /\ Env(c).data.columns = MetadataColumns(results[c][1])
            /\ AllRowsDecoded(c)

\* C23 amended: when the column metadata of the raw result set lists at
\* least one column, the column names are the metadata names in order and
\* every raw row, the first included, is decoded as a data row, in the same
\* count and order.  Metadata that lists no column counts as no metadata:
\* the first raw row then gives the column names and is not a data row.
C23_Amended ==
    \A c \in Calls :
        MetadataCase(c) =>
            LET info == results[c][1].ColumnInfo[1]
                raw == results[c][1].Rows[1]
                data == Env(c).data
            IN /\ Len(info) >= 1 =>
                     /\ Len(data.columns) = Len(info)
                     /\ \A i \in 1..Len(info) : data.columns[i] = ValueAt(info, i)
                     /\ AllRowsDecoded(c)
               /\ (Len(info) = 0 /\ Len(raw) >= 1) =>
                     /\ Len(data.rows) = Len(raw) - 1
                     /\ Len(data.columns) = Len(CellsOf(raw[1]))

C23_Witness ==
    \E c \in Calls :
        /\ MetadataCase(c)
        /\ results[c][1].ColumnInfo = Some(<<Some("id")>>)
        /\ results[c][1].Rows = Some(<<Some(<<Some("id")>>), Some(<<Absent>>)>>)
        /\ Env(c).data.columns = <<"id">>
        /\ Env(c).data.rows = <<[id |-> "id"], [id |-> ""]>>

\* C24: the columns of every decoded table contain no name twice, whatever
\* the raw result set (metadata or a header row may repeat a name or carry
\* empty names).
C24_Original ==
    \A c \in Calls :
        (Done(c) /\ Outcome(c) = "Success") =>
            LET columns == Env(c).data.columns IN
            \A i, j \in 1..Len(columns) : columns[i] = columns[j] => i = j

\* C25: a call returns Success only if its last status read answered
\* SUCCEEDED and exactly one result fetch, for that execution, was issued
\* after it and returned: the fetch is the last collaborator call and the
\* SUCCEEDED read the one before it.  A call makes at most one result fetch,
\* and none unless a status read answered SUCCEEDED: a failure or timeout
\* decided before that has no result fetch.
C25_SuccessNeedsOneFetch ==
    \A c \in Calls :
        /\ Len(Events(c, "results")) <= 1
        /\ (Done(c) /\ Outcome(c) = "Success") =>
              /\ Last(Reads(c)) = "SUCCEEDED"
              /\ Events(c, "results") = <<<<"results", queryExecutionId[c], "ok">>>>
              /\ Last(log[c]) = <<"results", queryExecutionId[c], "ok">>
              /\ log[c][Len(log[c]) - 1] = <<"status", queryExecutionId[c], "SUCCEEDED">>
        /\ (\A i \in 1..Len(Reads(c)) : Reads(c)[i] # "SUCCEEDED") =>
              /\ Events(c, "results") = <<>>
              /\ pc[c] # "results"
              /\ Done(c) => Outcome(c) \in {"Failure", "Timeout"}

C25_Witness ==
    \E c \in Calls :
        /\ Done(c)
        /\ Outcome(c) = "Success"
        /\ Reads(c) = <<"QUEUED", "RUNNING", "SUCCEEDED">>
        /\ Len(Events(c, "results")) = 1
        /\ Env(c).data.row_count = 2

\* the invocation has been entered and has not returned
Running(c) == pc[c] \notin {"idle", "done"}

\* C26: with a positive poll interval and a finite timeout, if every
\* collaborator call eventually returns or raises, every call that was
\* entered eventually returns an envelope, also when the engine keeps the
\* execution QUEUED or RUNNING for ever.
C26_CallTerminates == \A c \in Calls : Running(c) ~> Done(c)

C26_Witness ==
    \E c \in Calls :
        /\ Done(c)
        /\ Outcome(c) = "Timeout"
        /\ QUERY_TIMEOUT = 7000
        /\ Reads(c) = <<"QUEUED", "QUEUED", "RUNNING", "RUNNING">>
        /\ engine[queryExecutionId[c]] = "RUNNING"

\* C27: cancelQuery issues exactly one stop request and no status read, and
\* acknowledges as soon as the stop is accepted: the acknowledgement
\* {status: 'CANCELLED', message: 'Query cancellation requested'} is returned
\* whatever state the engine has the execution in.
C27_CancelIsOneStop ==
    /\ Len(cancelLog) <= 1
    /\ \A i \in 1..Len(cancelLog) :
          cancelLog[i][1] = "stop" /\ cancelLog[i][2] = cancelId
    /\ cancelPc \in {"idle", "stop"} => cancelLog = <<>> /\ cancelResponse = <<>>
    /\ (cancelPc = "done" /\ athena) => Len(cancelLog) = 1
    /\ (cancelPc = "done" /\ ~athena) => cancelLog = <<>>
    /\ (cancelPc = "done" /\ cancelLog = <<<<"stop", cancelId, "ok">>>>) =>
          cancelResponse =
              <<[success |-> TRUE,
                 data |-> [query_execution_id |-> cancelId,
                           status |-> "CANCELLED",
                           message |-> "Query cancellation requested"]]>>

C27_Witness ==
    /\ cancelPc = "done"
    /\ cancelLog = <<<<"stop", cancelId, "ok">>>>
    /\ cancelResponse[1].success
    /\ cancelResponse[1].data.status = "CANCELLED"
    /\ engine[cancelId] = "SUCCEEDED"

\* C28: executeQuery never issues a stop request.  Its collaborator calls are
\* identity, start, status and results only, and the only change a step of
\* an invocation makes to the engine is the new QUEUED execution of its
\* submit: whatever envelope it returns, the execution stays as the engine
\* has it, possibly still QUEUED or RUNNING.
C28_NoStopFromExecuteQuery ==
    /\ [](\A c \in Calls : \A i \in 1..Len(log[c]) :
            log[c][i][1] \in {"identity", "start", "status", "sleep", "results"})
    /\ [][\A c \in Calls :
            (pc'[c] # pc[c] \/ log'[c] # log[c]) =>
                \A id \in ExecIds :
                    \/ engine'[id] = engine[id]
                    \/ /\ pc[c] = "start"
                       /\ engine[id] = "NONE"
                       /\ engine'[id] = "QUEUED"
                       /\ queryExecutionId'[c] = id]_vars

C28_Witness ==
    \E c \in Calls :
        /\ Done(c)
        /\ Outcome(c) = "Timeout"
        /\ Len(Reads(c)) >= 2
        /\ engine[queryExecutionId[c]] = "RUNNING"
        /\ cancelLog = <<>>

\* C29: a status read without a state (or with a state that is none of
\* SUCCEEDED, FAILED, CANCELLED: the same else-branch) is treated like QUEUED
\* or RUNNING.  The step of such a read returns nothing and leaves waitTime
\* as it is, the call sleeps one poll interval next, and unless that reaches
\* the timeout it reads again; a call whose reads all answered without a
\* state returns the timeout, not a success and not an engine-reason failure.
C29_AbsentStateKeepsPolling ==
    /\ [][\A c \in Calls :
            (pc[c] = "status" /\ log'[c] # log[c] /\ Last(log'[c])[3] = "ABSENT") =>
                /\ pc'[c] = "sleep"
                /\ response'[c] = response[c]
                /\ waitTime'[c] = waitTime[c]]_vars
    /\ [][\A c \in Calls :
            (pc[c] = "sleep" /\ Last(log[c])[3] = "ABSENT" /\ log'[c] # log[c]) =>
                /\ Last(log'[c]) = <<"sleep", "2000", "ok">>
                /\ waitTime'[c] = waitTime[c] + 2000
                /\ IF waitTime'[c] < QUERY_TIMEOUT
                   THEN pc'[c] = "status" /\ response'[c] = response[c]
                   ELSE pc'[c] = "done"]_vars
    /\ [](\A c \in Calls :
            (Done(c) /\ Reads(c) # <<>> /\ AllAre(Reads(c), "ABSENT")) =>
                /\ Outcome(c) = "Timeout"
                /\ Events(c, "results") = <<>>
                /\ Len(Events(c, "sleep")) = Len(Reads(c)))

C29_Witness ==
    \E c \in Calls :
        /\ Done(c)
        /\ Reads(c) = <<"ABSENT", "ABSENT", "ABSENT">>
        /\ QUERY_TIMEOUT = 6000
        /\ waitTime[c] = 6000
        /\ Env(c).error = "Query timeout after 6000ms"

\* C30 as stated: in every decoded table each key of each row is one of the
\* names in columns, also for rows with more cells than columns and for
\* columns whose name is the empty string.
C30_Original ==
    \A c \in Calls :
        DecodedCase(c) =>
            LET data == Env(c).data IN
            \A j \in 1..Len(data.rows) : \A k \in DOMAIN data.rows[j] :
                \E i \in 1..Len(data.columns) : data.columns[i] = k

====
